---- MODULE Spec2Model ----
(***************************************************************************)
(* Mastermind solvers of roholazandie/mastermind.                          *)
(*                                                                         *)
(*   self_play.py            minimax self-play, colour feedback (A, B)     *)
(*   self_play_manhattan.py  minimax self-play, Manhattan feedback         *)
(*   single_player.py        colour feedback with dictionary tallies       *)
(*   convex_hull_solution.py Hamming distance, centroid guesses, 2-D hull  *)
(*   minimax_partitioning.py greedy partition of a list, binary search     *)
(*   network_game.py         pairwise payoffs, best-response dynamics      *)
(*                                                                         *)
(* A code is a sequence of symbols, Omega and S are sequences of codes in  *)
(* the order the source keeps them (Python lists).                         *)
(***************************************************************************)
EXTENDS Integers, Sequences, FiniteSets, TLC

\* the sessions; log holds the lines "Guess #i: guess => feedback" printed
VARIABLES variant, num_colors, num_positions, Omega, secret_code, S, guess,
          guess_count, feedback, log, pc
\* minimax_partitioning.py: arguments and locals of the binary search
VARIABLES nums, k, limit, left, right, answer
\* network_game.py: the graph, the payoff matrices, the action profile
VARIABLES G, payoff, actions, step
\* the value a call has returned
VARIABLES ret

partition_vars == <<nums, k, limit, left, right, answer>>

game_vars == <<G, payoff, actions, step>>

vars == <<variant, num_colors, num_positions, Omega, secret_code, S, guess,
          guess_count, feedback, log, pc, partition_vars, game_vars, ret>>

\* minimax_partitioning.py is not running
no_partition ==
    /\ nums = <<>>
    /\ k = 0
    /\ limit = 0
    /\ left = 0
    /\ right = 0
    /\ answer = 0

\* network_game.py is not running
no_game ==
    /\ G = <<>>
    /\ payoff = <<>>
    /\ actions = <<>>
    /\ step = 0

\* no session is running
no_session ==
    /\ variant = "none"
    /\ num_colors = 0
    /\ num_positions = 0
    /\ Omega = <<>>
    /\ secret_code = <<>>
    /\ S = <<>>
    /\ guess = <<>>
    /\ guess_count = 0
    /\ feedback = <<>>
    /\ log = <<>>

(***************************************************************************)
(* Bounds of the model.                                                    *)
(***************************************************************************)
\* sessions: num_colors in 1..MaxColors, num_positions in 1..MaxPositions,
\* and at most MaxCodes codes in Omega
MaxColors == 8
MaxPositions == 4
MaxCodes == 64
\* minimax_pick on every non-empty sub-list S of Omega: |Omega| <= MaxPickCodes
MaxPickCodes == 9
\* sessions whose feedback is supplied from outside: |Omega| <= MaxFedCodes
MaxFedCodes == 9
\* the oracles on every pair of codes of equal length: |Omega| <= MaxScoreCodes
MaxScoreCodes == 27
\* cap of the round counter guess_count, which the source leaves unbounded
MaxGuesses == 10
\* Hamming sessions: alphabet size n in 1..MaxHullColors
MaxHullColors == 5
\* minimax_partitioning.py: nums has at most MaxNumsLen elements in 0..MaxNum,
\* k is in 1..MaxK and limit in 0..MaxLimit
MaxNumsLen == 4
MaxNum == 3
MaxK == 3
MaxLimit == 6
\* network_game.py: graphs of at most MaxPlayers nodes, at most MaxIter
\* iterations of the best-response dynamics (max_iter)
MaxPlayers == 3
MaxIter == 3

(***************************************************************************)
(* Program constants.                                                      *)
(***************************************************************************)
\* default of code_to_int's parameter num_colors
DefaultNumColors == 6
\* default of play_hamming_mastermind_convex_hull's parameter d
DefaultD == 2

(***************************************************************************)
(* Helpers for Python built-ins.                                           *)
(***************************************************************************)
Min2(a, b) == IF a <= b THEN a ELSE b

Max2(a, b) == IF a >= b THEN a ELSE b

Abs(x) == IF x < 0 THEN 0 - x ELSE x

RECURSIVE Pow(_, _)
Pow(b, e) == IF e = 0 THEN 1 ELSE b * Pow(b, e - 1)

\* zip(guess, code) stops at the shorter of the two sequences
ZipIndices(x, y) == 1..Min2(Len(x), Len(y))

Range(seq) == {seq[i] : i \in DOMAIN seq}

\* x in list
InList(x, seq) == \E i \in DOMAIN seq : seq[i] = x

\* F(e), with e evaluated once and then shared by its uses in F
LetIn(e, F(_)) == CHOOSE r \in {F(x) : x \in {e}} : TRUE

\* max(values) of a non-empty collection of integers
MaxOf(T) == LetIn(T, LAMBDA U : CHOOSE m \in U : \A n \in U : n <= m)

\* the least of a non-empty collection of integers
MinOf(T) == LetIn(T, LAMBDA U : CHOOSE m \in U : \A n \in U : m <= n)

\* Counter(seq): symbol -> number of occurrences, keys are the symbols present
Counter(seq) ==
    [col \in Range(seq) |-> Cardinality({i \in DOMAIN seq : seq[i] = col})]

\* Counter.__getitem__: a missing key counts 0
CounterGet(cnt, col) == IF col \in DOMAIN cnt THEN cnt[col] ELSE 0

(***************************************************************************)
(* Feedback oracles.                                                       *)
(***************************************************************************)
\* variant of color_matches: the count in the code in place of the minimum
color_matches_code_count(cols, guess_cnt, code_cnt) ==
    Cardinality(UNION {
        {<<col, q>> : q \in 1..CounterGet(code_cnt, col)} : col \in cols})

\* sum(min(guess_count[col], code_count[col]) for col in guess_count): the
\* sum of the minima, counted as the pairs (col, k) with k in 1..minimum
color_matches(cols, guess_cnt, code_cnt) ==
    Cardinality(UNION {
        {<<col, q>> : q \in 1..Min2(CounterGet(guess_cnt, col),
                                    CounterGet(code_cnt, col))} :
        col \in cols})

\* variant of score_guess: B without the exact matches taken off
score_guess_B_with_exact(g, code) ==
    LET A == Cardinality({i \in ZipIndices(g, code) : g[i] = code[i]})
        guess_cnt == Counter(g)
        code_cnt == Counter(code)
        B == color_matches(DOMAIN guess_cnt, guess_cnt, code_cnt)
    IN  <<A, B>>

\* self_play.py score_guess: (A, B)
score_guess(g, code) ==
    LET A == Cardinality({i \in ZipIndices(g, code) : g[i] = code[i]})
        guess_cnt == Counter(g)
        code_cnt == Counter(code)
        B == color_matches(DOMAIN guess_cnt, guess_cnt, code_cnt) - A
    IN  <<A, B>>

\* variant of total_color_matches: the larger of the two counts (max for min)
total_color_matches_max(cols, color_count_guess, color_count_code) ==
    Cardinality(UNION {
        {<<color, q>> : q \in 1..(IF color \in DOMAIN color_count_code
                                  THEN Max2(color_count_guess[color],
                                            color_count_code[color])
                                  ELSE 0)} :
        color \in cols})

\* single_player.py: for color in color_count_guess: if color in
\* color_count_code: total_color_matches += min(..); the sum counted as the
\* pairs (color, k) with k in 1..minimum
total_color_matches(cols, color_count_guess, color_count_code) ==
    Cardinality(UNION {
        {<<color, q>> : q \in 1..(IF color \in DOMAIN color_count_code
                                  THEN Min2(color_count_guess[color],
                                            color_count_code[color])
                                  ELSE 0)} :
        color \in cols})

\* single_player.py score_guess: (A, B)
score_guess_single_player(g, code) ==
    LET A == Cardinality({i \in ZipIndices(g, code) : g[i] = code[i]})
        color_count_guess == Counter(g)
        color_count_code == Counter(code)
        B == total_color_matches(DOMAIN color_count_guess, color_count_guess,
                                 color_count_code) - A
    IN  <<A, B>>

\* self_play_manhattan.py score_guess: sum(abs(g - c) for g, c in zip(..))
RECURSIVE manhattan_sum(_, _, _)
manhattan_sum(g, code, i) ==
    IF i > Min2(Len(g), Len(code)) THEN 0
    ELSE Abs(g[i] - code[i]) + manhattan_sum(g, code, i + 1)

score_guess_manhattan(g, code) == manhattan_sum(g, code, 1)

\* convex_hull_solution.py hamming_distance
hamming_distance(x, y) == Cardinality({i \in ZipIndices(x, y) : x[i] # y[i]})

\* the feedback of a session of the given variant, as the tuple the session
\* keeps: (A, B) for colour feedback, (distance) for Manhattan feedback
Score(v, g, code) ==
    IF v = "color" THEN score_guess(g, code)
    ELSE <<score_guess_manhattan(g, code)>>

(***************************************************************************)
(* Omega and the tie-break key.                                            *)
(***************************************************************************)
\* the codes of prefixes, each extended by each of the symbols 1..n, the last
\* position varying fastest
extend_codes(prefixes, n) ==
    [q \in 1..(Len(prefixes) * n) |->
        Append(prefixes[((q - 1) \div n) + 1], ((q - 1) % n) + 1)]

\* itertools.product(range(1, num_colors + 1), repeat=num_positions)
RECURSIVE all_codes(_, _)
all_codes(n, p) ==
    IF p = 0 THEN << <<>> >>
    ELSE extend_codes(all_codes(n, p - 1), n)

RECURSIVE code_to_int_from(_, _, _, _)
code_to_int_from(code, n, i, val) ==
    IF i > Len(code) THEN val
    ELSE code_to_int_from(code, n, i + 1, val * n + (code[i] - 1))

code_to_int(code, n) == code_to_int_from(code, n, 1, 0)

\* the key minimax_pick sorts with: lambda c: code_to_int(c)
sort_key(code) == code_to_int(code, DefaultNumColors)

(***************************************************************************)
(* minimax_pick.                                                           *)
(***************************************************************************)
\* for code in S: partition[resp] = partition.get(resp, 0) + 1
\* resp -> number of the codes that score resp against g
partition_counts(v, g, codes) ==
    LetIn(<<>> \o [i \in DOMAIN codes |-> Score(v, g, codes[i])],
          LAMBDA resps :
              [resp \in Range(resps) |->
                  Cardinality({i \in DOMAIN resps : resps[i] = resp})])

\* self_play.py: max(partition.values()); raises ValueError on an empty
\* partition, see minimax_pick_raises
wc_size(partition) == MaxOf({partition[r] : r \in DOMAIN partition})

\* self_play_manhattan.py: max(partition.values(), default=0)
wc_size_manhattan(partition) ==
    IF DOMAIN partition = {} THEN 0
    ELSE MaxOf({partition[r] : r \in DOMAIN partition})

\* wc_size of guess g against the candidates codes
worst_case(v, g, codes) ==
    LetIn(partition_counts(v, g, codes),
          LAMBDA partition :
              IF v = "color" THEN wc_size(partition)
              ELSE wc_size_manhattan(partition))

\* variant of best_worst_case_of: the comparison turned round (> for <), so
\* that the greatest wc_size is kept
best_worst_case_of_greatest(wcs) == MaxOf(Range(wcs))

\* best_worst_case after the loop over all_guesses: every smaller wc_size
\* replaces it, so it ends as the least of the wc_size values
best_worst_case_of(wcs) == MinOf(Range(wcs))

\* best_guesses after the loop: restarted at every new best_worst_case and
\* appended to at every equal wc_size, it ends as the guesses whose wc_size is
\* the final best_worst_case, in the order of all_guesses
best_guesses_of(v, codes, all_guesses) ==
    LetIn(<<>> \o [i \in DOMAIN all_guesses |->
                      worst_case(v, all_guesses[i], codes)],
          LAMBDA wcs :
              LetIn(best_worst_case_of(wcs),
                    LAMBDA best_worst_case :
                        LetIn(SelectSeq([i \in DOMAIN all_guesses |-> i],
                                        LAMBDA i : wcs[i] = best_worst_case),
                              LAMBDA kept :
                                  [q \in DOMAIN kept |->
                                      all_guesses[kept[q]]])))

\* variant of final_candidates: the membership test negated (not in S)
final_candidates_outside_S(best_guesses, codes) ==
    LET in_S == SelectSeq(best_guesses, LAMBDA g : ~InList(g, codes))
    IN  IF in_S # <<>> THEN in_S ELSE best_guesses

\* variant of final_candidates: no preference for the guesses in S
final_candidates_no_preference(best_guesses, codes) == best_guesses

\* in_S if in_S else best_guesses
final_candidates(best_guesses, codes) ==
    LET in_S == SelectSeq(best_guesses, LAMBDA g : InList(g, codes))
    IN  IF in_S # <<>> THEN in_S ELSE best_guesses

\* final_candidates.sort(key=lambda c: code_to_int(c)); list.sort is stable:
\* an element stands behind those of smaller key and those of equal key that
\* preceded it
sort_by_key(seq) ==
    LetIn(<<>> \o [i \in DOMAIN seq |-> sort_key(seq[i])],
          LAMBDA keys :
              [q \in DOMAIN seq |->
                  seq[CHOOSE i \in DOMAIN seq :
                          Cardinality({j \in DOMAIN seq :
                              \/ keys[j] < keys[i]
                              \/ (keys[j] = keys[i] /\ j <= i)}) = q]])

\* self_play.py minimax_pick raises ValueError (max of an empty sequence)
\* when S is empty and there is a guess to scan
minimax_pick_raises(codes, all_guesses) == codes = <<>> /\ all_guesses # <<>>

\* the tail of minimax_pick: prefer the guesses in S, sort, take the first
first_candidate(best_guesses, codes) ==
    LetIn(<<>> \o final_candidates(best_guesses, codes),
          LAMBDA final : sort_by_key(final)[1])

\* self_play.py minimax_pick
minimax_pick(codes, all_guesses) ==
    LetIn(<<>> \o best_guesses_of("color", codes, all_guesses),
          LAMBDA best_guesses : first_candidate(best_guesses, codes))

\* self_play_manhattan.py minimax_pick
minimax_pick_manhattan(codes, all_guesses) ==
    LetIn(<<>> \o best_guesses_of("manhattan", codes, all_guesses),
          LAMBDA best_guesses : first_candidate(best_guesses, codes))

(***************************************************************************)
(* self_play_mastermind: the session.                                      *)
(***************************************************************************)
Variants == {"color", "manhattan"}

\* the (num_colors, num_positions) a session is started with
Params ==
    {cp \in (1..MaxColors) \X (1..MaxPositions) :
        Pow(cp[1], cp[2]) <= MaxCodes}

\* guess = (1, 1, 2, 2), resp. tuple([mid_color] * num_positions)
opening_guess(v, n, p) ==
    IF v = "color" THEN <<1, 1, 2, 2>>
    ELSE LET mid_color == (n \div 2) + 1
         IN  [i \in 1..p |-> mid_color]

\* variant of is_perfect: the code length of the opening guess written out
is_perfect_length_4(v, fb, p) == IF v = "color" THEN fb[1] = 4 ELSE fb[1] = 0

\* A == num_positions, resp. distance == 0
is_perfect(v, fb, p) == IF v = "color" THEN fb[1] = p ELSE fb[1] = 0

\* variant of filter_S: the comparison inverted (!= for ==)
filter_S_inverted(v, codes, g, fb) ==
    SelectSeq(codes, LAMBDA c : Score(v, g, c) # fb)

\* variant of filter_S: Omega filtered in place of the current S
filter_S_from_Omega(v, codes, g, fb) ==
    SelectSeq(Omega, LAMBDA c : Score(v, g, c) = fb)

\* S = [c for c in S if score_guess(guess, c) == feedback]
filter_S(v, codes, g, fb) == SelectSeq(codes, LAMBDA c : Score(v, g, c) = fb)

\* the state before the loop, for the parameters in ps
InitSession(ps) ==
    /\ variant \in Variants
    /\ \E cp \in ps :
          /\ num_colors = cp[1]
          /\ num_positions = cp[2]
          /\ Omega = all_codes(cp[1], cp[2])
    /\ secret_code \in Range(Omega)
    /\ S = Omega
    /\ guess = opening_guess(variant, num_colors, num_positions)
    /\ guess_count = 0
    /\ feedback = <<>>
    /\ log = <<>>
    /\ pc = "score"
    /\ no_partition
    /\ no_game
    /\ ret = <<>>

Init == InitSession(Params)

\* variant of ScoreGuess: the counter incremented after the success check
ScoreGuess_count_after_check ==
    /\ pc = "score"
    /\ guess_count < MaxGuesses
    /\ feedback' = Score(variant, guess, secret_code)
    /\ pc' = IF is_perfect(variant, feedback', num_positions)
             THEN "solved" ELSE "filter"
    /\ guess_count' = IF pc' = "solved" THEN guess_count ELSE guess_count + 1
    /\ log' = Append(log, <<guess_count + 1, guess, feedback'>>)
    /\ UNCHANGED <<variant, num_colors, num_positions, Omega, secret_code, S,
                   guess, partition_vars, game_vars, ret>>

\* guess_count += 1; score the guess against the secret; print the line
\* "Guess #guess_count: guess => feedback"; success check
ScoreGuess ==
    /\ pc = "score"
    /\ guess_count < MaxGuesses
    /\ guess_count' = guess_count + 1
    /\ feedback' = Score(variant, guess, secret_code)
    /\ log' = Append(log, <<guess_count', guess, feedback'>>)
    /\ pc' = IF is_perfect(variant, feedback', num_positions)
             THEN "solved" ELSE "filter"
    /\ UNCHANGED <<variant, num_colors, num_positions, Omega, secret_code, S,
                   guess, partition_vars, game_vars, ret>>

\* variant of FilterStep: the check for an empty S left out
FilterStep_unchecked ==
    /\ pc = "filter"
    /\ S' = filter_S(variant, S, guess, feedback)
    /\ pc' = "pick"
    /\ UNCHANGED <<variant, num_colors, num_positions, Omega, secret_code,
                   guess, guess_count, feedback, log, partition_vars,
                   game_vars, ret>>

\* filter S by the feedback; if not S: break
FilterStep ==
    /\ pc = "filter"
    /\ S' = filter_S(variant, S, guess, feedback)
    /\ pc' = IF S' = <<>> THEN "empty" ELSE "pick"
    /\ UNCHANGED <<variant, num_colors, num_positions, Omega, secret_code,
                   guess, guess_count, feedback, log, partition_vars,
                   game_vars, ret>>

\* guess = minimax_pick(S, Omega)
PickGuess ==
    /\ pc = "pick"
    /\ IF variant = "color" /\ minimax_pick_raises(S, Omega)
       THEN /\ pc' = "crash"
            /\ guess' = guess
       ELSE /\ pc' = "score"
            /\ guess' = IF variant = "color" THEN minimax_pick(S, Omega)
                        ELSE minimax_pick_manhattan(S, Omega)
    /\ UNCHANGED <<variant, num_colors, num_positions, Omega, secret_code, S,
                   guess_count, feedback, log, partition_vars, game_vars, ret>>

Next == ScoreGuess \/ FilterStep \/ PickGuess

Spec == Init /\ [][Next]_vars

\* the loop is sequential code: it keeps running until it breaks
FairSpec == Spec /\ WF_vars(Next)

(***************************************************************************)
(* Properties of the sessions.                                             *)
(***************************************************************************)
\* C1: in a session with honest feedback the secret is a member of the
\* candidate list S in every reachable state, before and after every filter
C1_SecretInS == InList(secret_code, S)

\* two filters have run and the secret is among the candidates that are left
C1_Witness ==
    /\ pc = "pick"
    /\ guess_count >= 2
    /\ Len(S) < Len(Omega)
    /\ InList(secret_code, S)

\* C2: |S| never grows, and a filter step that starts with |S| > 1 and does
\* not end the session leaves strictly fewer candidates
C2_Shrinks ==
    [][/\ Len(S') <= Len(S)
       /\ (pc = "filter" /\ Len(S) > 1 /\ pc' = "pick") => Len(S') < Len(S)]_vars

\* a later round (guess from minimax_pick) has filtered and more than one
\* candidate is left, so that the round started with more than one
C2_Witness ==
    /\ pc = "pick"
    /\ guess_count >= 2
    /\ Len(S) > 1
    /\ Len(S) < Len(Omega)

\* C3: every session terminates, and it does so in the success branch, never
\* in the empty-S branch
C3_Terminates ==
    /\ <>(pc = "solved")
    /\ [](pc \notin {"empty", "crash"})

\* a session that succeeded after three or more rounds
C3_Witness == pc = "solved" /\ guess_count >= 3

(***************************************************************************)
(* minimax_pick on every candidate list.                                   *)
(***************************************************************************)
PickParams ==
    {cp \in (1..MaxColors) \X (1..MaxPositions) :
        Pow(cp[1], cp[2]) <= MaxPickCodes}

\* the non-empty sub-lists of codes, in the order of codes
SubLists(codes) ==
    {SelectSeq(codes, LAMBDA c : c \in T) : T \in (SUBSET Range(codes)) \ {{}}}

\* the call minimax_pick(S, Omega), S any non-empty sub-list of Omega
InitPick ==
    /\ variant \in Variants
    /\ \E cp \in PickParams :
          /\ num_colors = cp[1]
          /\ num_positions = cp[2]
          /\ Omega = all_codes(cp[1], cp[2])
    /\ S \in SubLists(Omega)
    /\ secret_code = <<>>
    /\ guess = <<>>
    /\ guess_count = 0
    /\ feedback = <<>>
    /\ log = <<>>
    /\ pc = "pick"
    /\ no_partition
    /\ no_game
    /\ ret = <<>>

NextPick == PickGuess

SpecPick == InitPick /\ [][NextPick]_vars

(***************************************************************************)
(* Sessions whose feedback comes from outside: the loop body on any        *)
(* feedback value, as a codemaker other than score_guess could answer.     *)
(***************************************************************************)
FedParams ==
    {cp \in (1..MaxColors) \X (1..MaxPositions) :
        Pow(cp[1], cp[2]) <= MaxFedCodes}

\* the values a feedback can take for codes of p symbols in 1..n
Feedbacks(v, n, p) ==
    IF v = "color" THEN (0..p) \X (0..p)
    ELSE {<<d>> : d \in 0..(p * (n - 1))}

InitFed == InitSession(FedParams)

\* the scoring step with the feedback given instead of computed
ScoreFed ==
    /\ pc = "score"
    /\ guess_count < MaxGuesses
    /\ guess_count' = guess_count + 1
    /\ feedback' \in Feedbacks(variant, num_colors, num_positions)
    /\ log' = Append(log, <<guess_count', guess, feedback'>>)
    /\ pc' = IF is_perfect(variant, feedback', num_positions)
             THEN "solved" ELSE "filter"
    /\ UNCHANGED <<variant, num_colors, num_positions, Omega, secret_code, S,
                   guess, partition_vars, game_vars, ret>>

NextFed == ScoreFed \/ FilterStep \/ PickGuess

SpecFed == InitFed /\ [][NextFed]_vars

(***************************************************************************)
(* The oracles on every pair of codes of equal length.                     *)
(***************************************************************************)
Oracles == {"color", "single_player", "manhattan", "hamming"}

ScoreParams ==
    {cp \in (1..MaxColors) \X (1..MaxPositions) :
        Pow(cp[1], cp[2]) <= MaxScoreCodes}

\* the oracle named o applied to (g, code)
oracle(o, g, code) ==
    CASE o = "color" -> score_guess(g, code)
      [] o = "single_player" -> score_guess_single_player(g, code)
      [] o = "manhattan" -> <<score_guess_manhattan(g, code)>>
      [] o = "hamming" -> <<hamming_distance(g, code)>>

InitScore ==
    /\ variant \in Oracles
    /\ \E cp \in ScoreParams :
          /\ num_colors = cp[1]
          /\ num_positions = cp[2]
          /\ Omega = all_codes(cp[1], cp[2])
    /\ guess \in Range(Omega)
    /\ secret_code \in Range(Omega)
    /\ S = Omega
    /\ guess_count = 0
    /\ feedback = <<>>
    /\ log = <<>>
    /\ pc = "call"
    /\ no_partition
    /\ no_game
    /\ ret = <<>>

\* one call of the oracle
CallOracle ==
    /\ pc = "call"
    /\ feedback' = oracle(variant, guess, secret_code)
    /\ pc' = "returned"
    /\ UNCHANGED <<variant, num_colors, num_positions, Omega, secret_code, S,
                   guess, guess_count, log, partition_vars, game_vars, ret>>

NextScore == CallOracle

SpecScore == InitScore /\ [][NextScore]_vars

(***************************************************************************)
(* Properties of minimax_pick, stated on the candidates S of the state.    *)
(***************************************************************************)
\* the size of the largest bucket when S is partitioned by the feedback of g
LargestBucket(g) ==
    LetIn(<<>> \o [i \in DOMAIN S |-> Score(variant, g, S[i])],
          LAMBDA r :
              MaxOf({Cardinality({j \in DOMAIN r : r[j] = r[i]}) :
                         i \in DOMAIN r}))

\* the least worst case over all the guesses of Omega
MinWorstCase == MinOf({LargestBucket(g) : g \in Range(Omega)})

\* the guesses that are left after the minimum-worst-case rule and the
\* prefer-in-S rule
LeftAfterRules ==
    LetIn(MinWorstCase,
          LAMBDA m :
              LetIn({g \in Range(Omega) : LargestBucket(g) = m},
                    LAMBDA best :
                        IF best \cap Range(S) # {} THEN best \cap Range(S)
                        ELSE best))

\* C4: the guess minimax_pick returns for a non-empty S is a guess of Omega
\* whose worst case is the minimum over all the guesses of Omega
C4_MinimaxGuess ==
    pc = "score" =>
        /\ InList(guess, Omega)
        /\ LargestBucket(guess) = MinWorstCase

\* the returned guess is outside S and beats every guess that is in S
C4_Witness ==
    /\ pc = "score"
    /\ ~InList(guess, S)
    /\ \A i \in DOMAIN S : LargestBucket(S[i]) > LargestBucket(guess)

\* C5: among the guesses left after the minimum-worst-case and prefer-in-S
\* rules, the guess of a session is the one of smallest value as a number in
\* base num_colors
C5_SmallestBaseC ==
    (pc = "score" /\ guess_count >= 1) =>
        \A h \in LeftAfterRules :
            code_to_int(guess, num_colors) <= code_to_int(h, num_colors)

\* C6: when a guess of minimum worst case is a member of S, the guess
\* minimax_pick returns is a member of S
C6_PrefersS ==
    pc = "score" =>
        LetIn(MinWorstCase,
              LAMBDA m :
                  (\E i \in DOMAIN S : LargestBucket(S[i]) = m)
                      => InList(guess, S))

\* the returned guess is in S although a guess of minimum worst case outside S
\* has a smaller sort key
C6_Witness ==
    /\ pc = "score"
    /\ InList(guess, S)
    /\ \E h \in Range(Omega) :
          /\ ~InList(h, S)
          /\ LargestBucket(h) = MinWorstCase
          /\ sort_key(h) < sort_key(guess)

(***************************************************************************)
(* Properties of the error handling.                                       *)
(***************************************************************************)
\* the guess is a code of the session: num_positions symbols in 1..num_colors
WellFormed(g) ==
    /\ Len(g) = num_positions
    /\ \A i \in DOMAIN g : g[i] \in 1..num_colors

\* C7: a guess whose length differs from the code's, or with a symbol
\* outside 1..num_colors, is never scored: no feedback is produced for it
C7_MalformedNotScored == ~WellFormed(guess) => feedback = <<>>

\* C8: a feedback that no code of S produces empties S and ends the session
\* in the branch of its own; the loop does not go on and minimax_pick is not
\* called with an empty S
C8_InconsistentFeedback ==
    /\ [][(pc = "filter"
           /\ \A i \in DOMAIN S : Score(variant, guess, S[i]) # feedback)
          => (S' = <<>> /\ pc' = "empty")]_vars
    /\ [][pc # "empty"]_vars
    /\ [](pc = "pick" => S # <<>>)
    /\ [](pc # "crash")

\* a session of two or more rounds ended by a feedback no candidate produces
C8_Witness == pc = "empty" /\ S = <<>> /\ guess_count >= 2

(***************************************************************************)
(* Properties of the oracles.                                              *)
(***************************************************************************)
\* C9: for codes of the same length P, colour feedback has A = P exactly
\* when the two codes are equal, and A + B <= P
C9_ColorFeedback ==
    (pc = "returned" /\ variant \in {"color", "single_player"}) =>
        /\ (feedback[1] = num_positions) <=> (guess = secret_code)
        /\ feedback[1] + feedback[2] <= num_positions

\* colour feedback of two different codes with the same symbols
C9_Witness ==
    /\ pc = "returned"
    /\ variant = "color"
    /\ guess # secret_code
    /\ feedback[1] >= 1
    /\ feedback[1] + feedback[2] = num_positions

\* C10: Manhattan, Hamming and colour feedback are the same with the two
\* arguments exchanged
C10_Symmetric ==
    (pc = "returned" /\ variant \in {"color", "manhattan", "hamming"}) =>
        feedback = oracle(variant, secret_code, guess)

\* colour feedback of two codes with different symbol counts
C10_Witness ==
    /\ pc = "returned"
    /\ variant = "color"
    /\ Counter(guess) # Counter(secret_code)
    /\ feedback[2] >= 1

(***************************************************************************)
(* convex_hull_solution.py: the Hamming session with centroid guesses and  *)
(* the 2-D convex hull step.  It runs on the variables of the sessions:    *)
(* num_colors is n, num_positions is d, secret_code is secret, guess_count *)
(* is iteration and feedback is <<h>>.                                     *)
(***************************************************************************)
Reverse(seq) == [i \in DOMAIN seq |-> seq[Len(seq) + 1 - i]]

\* seq[:-1]
AllButLast(seq) == SubSeq(seq, 1, Len(seq) - 1)

\* avg[i] += x[i] for x in S: the sum of coordinate i
coordinate_sum(codes, i) ==
    Cardinality(UNION {{<<j, u>> : u \in 1..codes[j][i]} : j \in DOMAIN codes})

\* round(num / den) of Python 3: to the nearest integer, a tie to the even one
round_half_even(num, den) ==
    LET fl == num \div den
        twice_rest == 2 * (num % den)
    IN  IF twice_rest < den THEN fl
        ELSE IF twice_rest > den THEN fl + 1
        ELSE IF fl % 2 = 0 THEN fl ELSE fl + 1

\* guess = tuple(min(n, max(1, round(a))) for a in avg)
centroid_guess(codes, n, d) ==
    [i \in 1..d |->
        Min2(n, Max2(1, round_half_even(coordinate_sum(codes, i), Len(codes))))]

\* new_S = [x for x in S if hamming_distance(guess, x) == h]
hamming_filter(codes, g, h) ==
    SelectSeq(codes, LAMBDA x : hamming_distance(g, x) = h)

cross(o, a, b) ==
    (a[1] - o[1]) * (b[2] - o[2]) - (a[2] - o[2]) * (b[1] - o[1])

\* the order of tuples
lex_less(a, b) == a[1] < b[1] \/ (a[1] = b[1] /\ a[2] < b[2])

\* sorted(points)
sorted_points(points) ==
    LetIn(points,
          LAMBDA pts :
              <<>> \o
              [q \in DOMAIN pts |->
                  pts[CHOOSE i \in DOMAIN pts :
                          Cardinality({j \in DOMAIN pts :
                              \/ lex_less(pts[j], pts[i])
                              \/ (pts[j] = pts[i] /\ j <= i)}) = q]])

\* while len(lower) >= 2 and cross(lower[-2], lower[-1], p) <= 0: lower.pop()
RECURSIVE chain_pop(_, _)
chain_pop(chain, p) ==
    IF Len(chain) >= 2 /\ cross(chain[Len(chain) - 1], chain[Len(chain)], p) <= 0
    THEN LetIn(AllButLast(chain), LAMBDA popped : chain_pop(popped, p))
    ELSE chain

\* for p in pts: pop, then append p
RECURSIVE half_hull(_, _, _)
half_hull(pts, i, chain) ==
    IF i > Len(pts) THEN chain
    ELSE LetIn(Append(chain_pop(chain, pts[i]), pts[i]),
               LAMBDA appended : half_hull(pts, i + 1, appended))

\* lower[:-1] + upper[:-1] of the monotone chain
convex_hull_2d(points) ==
    LetIn(sorted_points(points),
          LAMBDA pts :
              AllButLast(half_hull(pts, 1, <<>>))
                  \o AllButLast(half_hull(Reverse(pts), 1, <<>>)))

same_sign(a, b) == a * b >= 0

\* variant of point_in_triangle: a point on an edge line is not inside
point_in_triangle_strict(pt, tri) ==
    /\ cross(tri[1], tri[2], pt) * cross(tri[2], tri[3], pt) > 0
    /\ cross(tri[2], tri[3], pt) * cross(tri[3], tri[1], pt) > 0

\* same_sign(c1, c2) and same_sign(c2, c3)
point_in_triangle(pt, tri) ==
    /\ same_sign(cross(tri[1], tri[2], pt), cross(tri[2], tri[3], pt))
    /\ same_sign(cross(tri[2], tri[3], pt), cross(tri[3], tri[1], pt))

\* triangles = [(hull[0], hull[i], hull[i+1]) for i in range(1, len(hull)-1)]
fan_triangles(hull) ==
    [i \in 1..(Len(hull) - 2) |-> <<hull[1], hull[i + 1], hull[i + 2]>>]

point_in_polygon_2d(pt, hull, triangles) ==
    \E i \in DOMAIN triangles : point_in_triangle(pt, triangles[i])

\* the integer points of the bounding box that lie in a triangle of the fan,
\* ix ascending and, for each ix, iy ascending.  The coordinates are floats
\* made from the symbols of codes, so floor and ceil leave them as they are.
all_integer_points_in_2d_hull(hull) ==
    LetIn(<<MinOf({hull[i][1] : i \in DOMAIN hull}),
            MaxOf({hull[i][1] : i \in DOMAIN hull}),
            MinOf({hull[i][2] : i \in DOMAIN hull}),
            MaxOf({hull[i][2] : i \in DOMAIN hull})>>,
          LAMBDA b :
              LET minx == b[1]
                  maxx == b[2]
                  miny == b[3]
                  maxy == b[4]
                  height == maxy - miny + 1
                  box == [q \in 1..((maxx - minx + 1) * height) |->
                             <<minx + ((q - 1) \div height),
                               miny + ((q - 1) % height)>>]
              IN  LetIn(<<>> \o fan_triangles(hull),
                        LAMBDA triangles :
                            SelectSeq(box,
                                      LAMBDA pt :
                                          point_in_polygon_2d(pt, hull,
                                                              triangles))))

\* the d == 2 branch: with three or more points, S is the integer points of
\* the hull of new_S that are members of new_S; otherwise S = new_S
hull_step(new_S, d) ==
    IF d = 2 /\ Len(new_S) >= 3
    THEN LetIn(Range(new_S),
               LAMBDA valid_set :
                   LetIn(convex_hull_2d(new_S),
                         LAMBDA hull_2d :
                             SelectSeq(all_integer_points_in_2d_hull(hull_2d),
                                       LAMBDA ip : ip \in valid_set)))
    ELSE new_S

\* S = all_codes(n, d); secret = random.choice(S); iteration = 0
InitHull ==
    /\ variant = "hamming"
    /\ num_colors \in 1..MaxHullColors
    /\ num_positions = DefaultD
    /\ Omega = all_codes(num_colors, num_positions)
    /\ S = Omega
    /\ secret_code \in Range(Omega)
    /\ guess = <<>>
    /\ guess_count = 0
    /\ feedback = <<>>
    /\ log = <<>>
    /\ pc = "hguess"
    /\ no_partition
    /\ no_game
    /\ ret = <<>>

\* iteration += 1; if len(S) == 1: guess = S[0].  The counter is only
\* printed: it is counted up to MaxGuesses and the loop goes on.
GuessSingle ==
    /\ pc = "hguess"
    /\ Len(S) = 1
    /\ guess_count' = Min2(guess_count + 1, MaxGuesses)
    /\ guess' = S[1]
    /\ pc' = "hscore"
    /\ UNCHANGED <<variant, num_colors, num_positions, Omega, secret_code, S,
                   feedback, log, partition_vars, game_vars, ret>>

\* iteration += 1; else: the centroid of S, rounded and clamped
GuessCentroid ==
    /\ pc = "hguess"
    /\ Len(S) # 1
    /\ guess_count' = Min2(guess_count + 1, MaxGuesses)
    /\ guess' = centroid_guess(S, num_colors, num_positions)
    /\ pc' = "hscore"
    /\ UNCHANGED <<variant, num_colors, num_positions, Omega, secret_code, S,
                   feedback, log, partition_vars, game_vars, ret>>

\* h = hamming_distance(guess, secret); if h == 0: break
HammingFeedback ==
    /\ pc = "hscore"
    /\ feedback' = <<hamming_distance(guess, secret_code)>>
    /\ pc' = IF feedback'[1] = 0 THEN "found" ELSE "hfilter"
    /\ UNCHANGED <<variant, num_colors, num_positions, Omega, secret_code, S,
                   guess, guess_count, log, partition_vars, game_vars, ret>>

\* filter S to the codes at distance h, the hull step; if len(S) == 0: break
HullFilter ==
    /\ pc = "hfilter"
    /\ S' = LetIn(hamming_filter(S, guess, feedback[1]),
                  LAMBDA new_S : hull_step(new_S, num_positions))
    /\ pc' = IF Len(S') = 0 THEN "exhausted" ELSE "hguess"
    /\ UNCHANGED <<variant, num_colors, num_positions, Omega, secret_code,
                   guess, guess_count, feedback, log, partition_vars,
                   game_vars, ret>>

NextHull == GuessSingle \/ GuessCentroid \/ HammingFeedback \/ HullFilter

SpecHull == InitHull /\ [][NextHull]_vars

\* while True: the loop keeps running until it breaks
FairSpecHull == SpecHull /\ WF_vars(NextHull)

\* minimax_pick on every candidate list, and the Hamming sessions
InitPickOrHull == InitPick \/ InitHull

NextPickOrHull == NextPick \/ NextHull

SpecPickOrHull == InitPickOrHull /\ [][NextPickOrHull]_vars

(***************************************************************************)
(* Properties of a single candidate and of the Hamming sessions.           *)
(***************************************************************************)
\* C11: with exactly one candidate left the next guess is that candidate:
\* minimax_pick(S, Omega) returns S[0] when S has one element and Omega
\* contains it, and the Hamming session guesses S[0]
C11_SingleCandidate ==
    [][/\ (pc = "pick" /\ Len(S) = 1 /\ InList(S[1], Omega))
              => (guess' = S[1] /\ pc' = "score")
       /\ (pc = "hguess" /\ Len(S) = 1) => guess' = S[1]]_vars

\* minimax_pick has returned the only candidate of a larger Omega although
\* every code of Omega has the same worst case and some have a smaller key
C11_Witness ==
    /\ pc = "score"
    /\ variant = "color"
    /\ Len(S) = 1
    /\ guess = S[1]
    /\ guess # Omega[1]

\* C12: in the Hamming session with d = 2 the hull step hands on the
\* feedback-filtered list as it is, the same codes in the same order, so
\* the secret stays a candidate
C12_HullKeepsCandidates ==
    [][pc = "hfilter" =>
          /\ S' = hamming_filter(S, guess, feedback[1])
          /\ InList(secret_code, S')]_vars

\* the hull step has run on three or more filtered codes
C12_Witness ==
    /\ pc = "hguess"
    /\ guess_count >= 1
    /\ Len(S) >= 3
    /\ Len(S) < Len(Omega)

\* C17: every Hamming session with d = 2 leaves its loop, by finding the
\* secret or by S becoming empty
C17_LeavesLoop == <>(pc \in {"found", "exhausted"})

(***************************************************************************)
(* Properties of the rounds of a minimax session, read off the printed     *)
(* lines log[i] = <<round, guess, feedback>>.                              *)
(***************************************************************************)
\* C13: the round counter is 1 at the opening guess and goes up by exactly 1
\* per scored guess, so that the count at success is the number of guesses
\* scored; a session whose secret is the opening guess succeeds in round 1
\* with S still Omega: no filter and no minimax_pick has run
C13_RoundCounter ==
    /\ guess_count = Len(log)
    /\ \A i \in DOMAIN log : log[i][1] = i
    /\ log # <<>> =>
           log[1][2] = opening_guess(variant, num_colors, num_positions)
    /\ secret_code = opening_guess(variant, num_colors, num_positions) =>
           /\ pc \in {"score", "solved"}
           /\ S = Omega
           /\ guess = secret_code
           /\ pc = "solved" => guess_count = 1

\* colour feedback, P = 4: the secret is the opening guess (1, 1, 2, 2), the
\* feedback is (4, 0) and the session has succeeded in round 1
C13_Witness ==
    /\ pc = "solved"
    /\ variant = "color"
    /\ secret_code = <<1, 1, 2, 2>>
    /\ guess = <<1, 1, 2, 2>>
    /\ feedback = <<4, 0>>
    /\ guess_count = 1

\* the codes of Omega, in Omega's order, that give the printed feedback for
\* the printed guess in each of the first r rounds
ConsistentCodes(r) ==
    SelectSeq(Omega,
              LAMBDA c :
                  \A i \in 1..r : Score(variant, log[i][2], c) = log[i][3])

\* C18: S is exactly the list of the codes of Omega, in Omega's order and
\* without duplicates, that agree with the feedback of every round filtered
\* so far (the round just scored is not filtered yet)
C18_SIsConsistentCodes ==
    S = ConsistentCodes(IF pc \in {"filter", "solved"}
                        THEN Len(log) - 1 ELSE Len(log))

\* Manhattan feedback: two rounds with different feedback have been filtered
\* and more than one code agrees with both
C18_Witness ==
    /\ pc = "pick"
    /\ variant = "manhattan"
    /\ Len(log) >= 2
    /\ log[1][3] # log[2][3]
    /\ Len(S) > 1
    /\ Len(S) < Len(Omega)

\* the first round: S is Omega and guess is the fixed opening guess
FirstRound ==
    \/ guess_count = 0
    \/ (guess_count = 1 /\ pc \in {"filter", "solved"})

\* the guess minimax_pick(Omega, Omega) would return
FirstPick ==
    IF variant = "color" THEN minimax_pick(Omega, Omega)
    ELSE minimax_pick_manhattan(Omega, Omega)

RECURSIVE SumSeq(_)
SumSeq(seq) == IF seq = <<>> THEN 0 ELSE Head(seq) + SumSeq(Tail(seq))

\* the loop of can_partition from element i on
RECURSIVE can_partition_from(_, _, _, _, _, _)
can_partition_from(ns, kmax, lim, i, subset_count, current_sum) ==
    IF i > Len(ns) THEN TRUE
    ELSE IF ns[i] > lim THEN FALSE
    ELSE IF current_sum + ns[i] <= lim
         THEN can_partition_from(ns, kmax, lim, i + 1, subset_count,
                                 current_sum + ns[i])
    ELSE IF subset_count + 1 > kmax THEN FALSE
    ELSE can_partition_from(ns, kmax, lim, i + 1, subset_count + 1, ns[i])

\* subset_count = 1; current_sum = 0; for num in nums: ...
can_partition(ns, kmax, lim) == can_partition_from(ns, kmax, lim, 1, 1, 0)

\* variant of last_subset: the last subset is not appended
last_subset_dropped(subsets, current_subset) == subsets

\* if current_subset: subsets.append(current_subset)
last_subset(subsets, current_subset) ==
    IF current_subset # <<>> THEN Append(subsets, current_subset) ELSE subsets

\* the reconstruction loop from element i on
RECURSIVE greedy_subsets_from(_, _, _, _, _, _)
greedy_subsets_from(ns, lim, i, subsets, current_subset, current_sum) ==
    IF i > Len(ns) THEN last_subset(subsets, current_subset)
    ELSE IF current_sum + ns[i] <= lim
         THEN greedy_subsets_from(ns, lim, i + 1, subsets,
                                  Append(current_subset, ns[i]),
                                  current_sum + ns[i])
    ELSE greedy_subsets_from(ns, lim, i + 1, Append(subsets, current_subset),
                             <<ns[i]>>, ns[i])

\* subsets = []; current_subset = []; current_sum = 0; for num in nums: ...
greedy_subsets(ns, lim) == greedy_subsets_from(ns, lim, 1, <<>>, <<>>, 0)

\* the non-empty lists of at most MaxNumsLen integers in 0..MaxNum
NumsLists == UNION {[1..len -> 0..MaxNum] : len \in 1..MaxNumsLen}

\* minimax_partition_with_subsets(nums, k) before its loop:
\* left, right = max(nums), sum(nums); answer = right
InitPartition ==
    /\ no_session
    /\ no_game
    /\ nums \in NumsLists
    /\ k \in 1..MaxK
    /\ limit = 0
    /\ left = MaxOf(Range(nums))
    /\ right = SumSeq(nums)
    /\ answer = right
    /\ ret = <<>>
    /\ pc = "search"

\* one iteration of while left <= right
BinarySearchStep ==
    /\ pc = "search"
    /\ left <= right
    /\ LET mid == (left + right) \div 2
       IN  IF can_partition(nums, k, mid)
           THEN /\ answer' = mid
                /\ right' = mid - 1
                /\ left' = left
           ELSE /\ left' = mid + 1
                /\ UNCHANGED <<answer, right>>
    /\ UNCHANGED <<variant, num_colors, num_positions, Omega, secret_code, S,
                   guess, guess_count, feedback, log, pc, nums, k, limit,
                   game_vars, ret>>

\* the loop is over: reconstruct the subsets under answer and return
Reconstruct ==
    /\ pc = "search"
    /\ left > right
    /\ ret' = <<answer, greedy_subsets(nums, answer)>>
    /\ pc' = "partitioned"
    /\ UNCHANGED <<variant, num_colors, num_positions, Omega, secret_code, S,
                   guess, guess_count, feedback, log, partition_vars,
                   game_vars>>

NextPartition == BinarySearchStep \/ Reconstruct

SpecPartition == InitPartition /\ [][NextPartition]_vars

\* the function is sequential code: it runs until it returns
FairSpecPartition == SpecPartition /\ WF_vars(NextPartition)

\* the call can_partition(nums, k, limit) on any limit
InitCanPartition ==
    /\ no_session
    /\ no_game
    /\ nums \in NumsLists
    /\ k \in 1..MaxK
    /\ limit \in 0..MaxLimit
    /\ left = 0
    /\ right = 0
    /\ answer = 0
    /\ ret = <<>>
    /\ pc = "can_partition"

CallCanPartition ==
    /\ pc = "can_partition"
    /\ ret' = can_partition(nums, k, limit)
    /\ pc' = "checked"
    /\ UNCHANGED <<variant, num_colors, num_positions, Omega, secret_code, S,
                   guess, guess_count, feedback, log, partition_vars,
                   game_vars>>

NextCanPartition == CallCanPartition

SpecCanPartition == InitCanPartition /\ [][NextCanPartition]_vars

(***************************************************************************)
(* Properties of minimax_partitioning.py.                                  *)
(***************************************************************************)
\* the subsets one after the other
RECURSIVE Flatten(_)
Flatten(seqs) == IF seqs = <<>> THEN <<>> ELSE Head(seqs) \o Flatten(Tail(seqs))

\* C15: minimax_partition_with_subsets(nums, k) returns, and what it returns
\* is (answer, subsets) with: the subsets concatenated are nums, there are at
\* most k of them, every subset sum is at most answer and the largest is
\* answer, and answer is the smallest limit with can_partition(nums, k, limit)
C15_MinimaxPartition ==
    /\ <>(pc = "partitioned")
    /\ [](pc = "partitioned" =>
            /\ Flatten(ret[2]) = nums
            /\ Len(ret[2]) <= k
            /\ \A i \in DOMAIN ret[2] : SumSeq(ret[2][i]) <= ret[1]
            /\ \E i \in DOMAIN ret[2] : SumSeq(ret[2][i]) = ret[1]
            /\ can_partition(nums, k, ret[1])
            /\ \A lim \in 0..(ret[1] - 1) : ~can_partition(nums, k, lim))

\* a result with k >= 2 subsets whose answer lies strictly between max(nums)
\* and sum(nums): the binary search has moved both of its ends
C15_Witness ==
    /\ pc = "partitioned"
    /\ k >= 2
    /\ Len(ret[2]) = k
    /\ ret[1] > MaxOf(Range(nums))
    /\ ret[1] < SumSeq(nums)

\* the elements of nums can be assigned to at most k subsets such that no
\* subset sum exceeds limit
SplitExists ==
    \E f \in [DOMAIN nums -> 1..k] :
        \A b \in 1..k :
            Cardinality(UNION {{<<i, u>> : u \in 1..nums[i]} :
                                   i \in {j \in DOMAIN nums : f[j] = b}})
                <= limit

\* C16: can_partition(nums, k, limit) is True exactly when some assignment
\* of the elements of nums to at most k subsets keeps every subset sum
\* within limit
C16_AnySplit == pc = "checked" => (ret <=> SplitExists)

(***************************************************************************)
(* network_game.py.  A graph G is <<n, E>>: the nodes are 0..n-1 and E is   *)
(* the set of its edges <<i, j>>, i < j, each edge once as G.edges() lists  *)
(* it.  A payoff matrix maps <<row, column>> to a number.  The numbers are  *)
(* integers: sums of them are exact, as the claims about them assume.       *)
(***************************************************************************)
Nodes(g) == 0..(g[1] - 1)

Edges(g) == g[2]

\* neighbors = {i: list(G.neighbors(i)) for i in G.nodes()}
neighbors(g, i) ==
    {j \in Nodes(g) : <<i, j>> \in Edges(g) \/ <<j, i>> \in Edges(g)}

\* the graphs generate_random_graph can return
Graphs ==
    {<<n, E>> : n \in 1..MaxPlayers,
                E \in SUBSET {e \in (0..(MaxPlayers - 1)) \X (0..(MaxPlayers - 1)) :
                                  e[1] < e[2]}}

\* values of the entries rng.uniform(low, high) draws, low = -1.0, high = 1.0
PayoffValues == {-1, 0}

\* the 2x2 matrices rng.uniform(low, high, size=(2, 2)) can draw
Matrices == [(0..1) \X (0..1) -> PayoffValues]

\* -M_ij
Negated(M) == [ab \in DOMAIN M |-> 0 - M[ab]]

\* payoff[i][j] = M_ij; payoff[j][i] = -M_ij, for the draws M of the edges
pairwise_payoffs(g, M) ==
    [i \in Nodes(g) |->
        [j \in neighbors(g, i) |->
            IF <<i, j>> \in Edges(g) THEN M[<<i, j>>]
            ELSE Negated(M[<<j, i>>])]]

RECURSIVE SumOver(_, _)
SumOver(f, T) ==
    IF T = {} THEN 0
    ELSE LET j == CHOOSE x \in T : TRUE
         IN  f[j] + SumOver(f, T \ {j})

\* the sum over the neighbours j of payoff[i][j][a_i, a_j]
total_payoff(g, pay, acts, i, a_i) ==
    SumOver([j \in neighbors(g, i) |-> pay[i][j][<<a_i, acts[j]>>]],
            neighbors(g, i))

\* candidate 0, then candidate 1 if its total is strictly greater
best_response(g, pay, acts, i) ==
    IF total_payoff(g, pay, acts, i, 1) > total_payoff(g, pay, acts, i, 0)
    THEN 1 ELSE 0

update_all_players(g, pay, acts) ==
    [i \in Nodes(g) |-> best_response(g, pay, acts, i)]

compute_profile_payoffs(g, pay, acts) ==
    [i \in Nodes(g) |-> total_payoff(g, pay, acts, i, acts[i])]

\* main: the graph has been generated
InitGame ==
    /\ no_session
    /\ no_partition
    /\ G \in {g \in Graphs : Edges(g) \subseteq Nodes(g) \X Nodes(g)}
    /\ payoff = <<>>
    /\ actions = <<>>
    /\ step = 0
    /\ ret = <<>>
    /\ pc = "generate"

\* payoff = generate_pairwise_payoffs(G)
GeneratePayoffs ==
    /\ pc = "generate"
    /\ \E M \in [Edges(G) -> Matrices] : payoff' = pairwise_payoffs(G, M)
    /\ pc' = "init_actions"
    /\ UNCHANGED <<variant, num_colors, num_positions, Omega, secret_code, S,
                   guess, guess_count, feedback, log, partition_vars, G,
                   actions, step, ret>>

\* run_best_response_dynamics: actions = {i: rng.integers(0, 2) ...}
InitActions ==
    /\ pc = "init_actions"
    /\ actions' \in [Nodes(G) -> 0..1]
    /\ pc' = "dynamics"
    /\ UNCHANGED <<variant, num_colors, num_positions, Omega, secret_code, S,
                   guess, guess_count, feedback, log, partition_vars, G,
                   payoff, step, ret>>

\* one iteration of for step in range(max_iter), max_iter being MaxIter:
\* the payoffs of the profile, the synchronous best responses, the check
\* for a stable profile.  ret is the payoffs of the last snapshot.
DynamicsStep ==
    /\ pc = "dynamics"
    /\ step < MaxIter
    /\ ret' = compute_profile_payoffs(G, payoff, actions)
    /\ actions' = update_all_players(G, payoff, actions)
    /\ IF actions' = actions
       THEN /\ pc' = "stable"
            /\ step' = step
       ELSE /\ step' = step + 1
            /\ pc' = IF step' = MaxIter THEN "max_iter" ELSE "dynamics"
    /\ UNCHANGED <<variant, num_colors, num_positions, Omega, secret_code, S,
                   guess, guess_count, feedback, log, partition_vars, G,
                   payoff>>

NextGame == GeneratePayoffs \/ InitActions \/ DynamicsStep

SpecGame == InitGame /\ [][NextGame]_vars

(***************************************************************************)
(* Properties of network_game.py.                                          *)
(***************************************************************************)
\* C20: the payoffs are pairwise zero-sum: on every edge (i, j) and for every
\* pair of actions, what i receives from j plus what j receives from i is 0,
\* and the payoffs of every action profile sum to 0 over the players
C20_ZeroSum ==
    /\ pc # "generate" =>
           \A e \in Edges(G) : \A a_i \in 0..1, a_j \in 0..1 :
               payoff[e[1]][e[2]][<<a_i, a_j>>]
                   + payoff[e[2]][e[1]][<<a_j, a_i>>] = 0
    /\ pc \in {"dynamics", "stable", "max_iter"} /\ ret # <<>> =>
           SumOver(ret, Nodes(G)) = 0

(***************************************************************************)
(* Properties of the guesses of a minimax session.                         *)
(***************************************************************************)
\* C21: in a session with honest feedback no guess is made twice: the
\* guesses scored so far differ from one another, and the guess about to be
\* scored differs from all of them, the opening guess included
C21_NoGuessTwice ==
    /\ \A i \in DOMAIN log : \A j \in DOMAIN log :
           i < j => log[i][2] # log[j][2]
    /\ pc = "score" => \A i \in DOMAIN log : log[i][2] # guess

\* after two scored guesses minimax_pick has chosen a guess that is no
\* candidate, as the earlier guesses are, and it is a new one
C21_Witness ==
    /\ pc = "score"
    /\ Len(log) >= 2
    /\ ~InList(guess, S)
    /\ \A i \in DOMAIN log : log[i][2] # guess

\* C22: every guess scored in a session is a code of Omega, i.e. it has
\* num_positions symbols, each in 1..num_colors
C22_GuessInOmega == \A i \in DOMAIN log : InList(log[i][2], Omega)

(***************************************************************************)
(* The two implementations of colour feedback.                             *)
(***************************************************************************)
\* C23: for codes of equal length score_guess of single_player.py
\* (dictionary tallies) and score_guess of self_play.py (Counter tallies)
\* return the same pair (A, B)
C23_SameColorFeedback ==
    /\ (pc = "returned" /\ variant = "single_player") =>
           feedback = score_guess(guess, secret_code)
    /\ (pc = "returned" /\ variant = "color") =>
           feedback = score_guess_single_player(guess, secret_code)

\* single_player.py has scored a guess with a colour the code lacks and a
\* colour that the guess and the code hold in different numbers
C23_Witness ==
    /\ pc = "returned"
    /\ variant = "single_player"
    /\ feedback[2] >= 1
    /\ \E col \in Range(guess) : col \notin Range(secret_code)
    /\ \E col \in Range(guess) \cap Range(secret_code) :
           Counter(guess)[col] # Counter(secret_code)[col]

====
